---- MODULE Spec2Model ----
(***************************************************************************)
(* JupyterHubApp (jupyterhub/app.py): start-up sequence, proxy launch and  *)
(* readiness probing (start_proxy), the periodic proxy watchdog            *)
(* (check_proxy) and shutdown (cleanup).                                   *)
(*                                                                         *)
(* Time is discrete.  One unit is the timeout of server.wait_up(1); the    *)
(* watchdog period proxy_check_interval (1e4 ms) is ProxyCheckInterval     *)
(* units.  A coroutine runs atomically from one yield to the next, as on   *)
(* a tornado IOLoop; the proxy process and the backends are scheduled by   *)
(* the operating system and may change state between any two steps.        *)
(*                                                                         *)
(* tornado.ioloop.PeriodicCallback, in the tornado releases this code was  *)
(* written for, calls its callback every period and does not wait for the  *)
(* Future a coroutine callback returns.  server.wait_up, proxy.            *)
(* add_all_users (orm.py) and spawner.stop (spawner.py) are not part of    *)
(* app.py; they are modelled from their documented behaviour.              *)
(***************************************************************************)
EXTENDS Integers, Sequences, FiniteSets, TLC

\* ------------------------------------------------------------------ bounds
MaxUsers == 2
MaxRestarts == 2

Users == 1..MaxUsers
Ticks == 1..MaxRestarts
Main == 0
Coroutines == 0..MaxRestarts

\* ------------------------------------------------------- program constants
\* for i in range(10)
Attempts == 10
\* proxy_check_interval = int(1e4) ms, in units of the wait_up(1) timeout
ProxyCheckInterval == 10
\* Popen.returncode after terminate(): -SIGTERM
SigTerm == 15

\* configured ports: the defaults of port and hub_port, and port + 1
Ports == {8000, 8001, 8081}
ExitCodes == {0, 17}
\* two calls of orm.new_token() return different tokens: the default of the
\* proxy_auth_token trait, and the token init_proxy gives the Proxy
TraitToken == "token-1"
NewToken == "token-2"
\* how a wait_up future resolves: it returns, or raises TimeoutError
Outcomes == {"up", "timeout"}

\* Python's None, for the result of Popen.poll() and for unset attributes:
\* an optional value is the empty set or a singleton
None == {}

VARIABLES
    hub_port, port, proxy_api_port, \* configuration traits
    pid_file,        \* TRUE iff a pid_file path is configured
    pid_exists,      \* the marker file is on disk
    pc,              \* position of the main thread
    exit_status,     \* None while running, else {"0"}, {"1"} or {"exception"}
    hub, proxy,      \* self.hub / self.proxy as committed to the db (None or a singleton)
    procs,           \* every process Popen has created, in launch order
    proxy_process,   \* self.proxy_process: 0 (unset) or an index into procs
    co,              \* the start_proxy / check_proxy coroutines
    restarts,        \* number of watchdog ticks that entered start_proxy
    armed,           \* PeriodicCallback.start() has been called
    untilTick,       \* time units until the periodic callback is due
    listening,       \* http_server.listen(hub_port) has been called
    spawner,         \* user.spawner is not None
    futures,         \* cleanup's list of stop futures (users, in query order)
    stop,            \* per user: state of the future returned by spawner.stop()
    stopCalls,       \* per user: number of stop() calls made
    awaitIdx,        \* cleanup's position in `for f in futures: yield f`
    cleanup,         \* "none", "running", "done", "raised", "interrupted"
    afterFail,       \* what the tick following a failed restart did
    public_log       \* start(): the probe counters of the public server, kept
                     \* while start_proxy probes the API server

vars == <<hub_port, port, proxy_api_port, pid_file, pid_exists, pc, exit_status,
          hub, proxy, procs, proxy_process, co, restarts, armed, untilTick,
          listening, spawner, futures, stop, stopCalls, awaitIdx,
          cleanup, afterFail, public_log>>

cfgVars == <<hub_port, port, proxy_api_port, pid_file>>
dbVars == <<hub, proxy>>
loopVars == <<armed, untilTick, listening>>
userVars == <<spawner>>
cleanVars == <<futures, stop, stopCalls, awaitIdx, cleanup>>

\* ----------------------------------------------------------------- helpers
CoInit ==
    [pc |-> "idle", server |-> 1, i |-> 0, elapsed |-> 0,
     probes |-> 0, fails |-> 0, acc |-> 0, checks |-> 0, up |-> <<FALSE, FALSE>>,
     err |-> "none", code |-> None, seen |-> None, launches |-> 0,
     replays |-> 0, replayed |-> {}]

\* Popen.poll(): None while the process runs, else its return code
Poll(p) == p.returncode

\* self.proxy_process.poll()
PollProxy(ps, h) == Poll(ps[h])

\* the state after construction, for a configuration of the three ports
Constructed(h, p, a) ==
    /\ hub_port = h
    /\ port = p
    /\ proxy_api_port = a
    /\ pid_file \in BOOLEAN
    /\ pid_exists = FALSE
    /\ pc = "write_pid_file"
    /\ exit_status = None
    /\ hub = None
    /\ proxy = None
    /\ procs = <<>>
    /\ proxy_process = 0
    /\ co = [c \in Coroutines |-> CoInit]
    /\ restarts = 0
    /\ armed = FALSE
    /\ untilTick = ProxyCheckInterval
    /\ listening = FALSE
    /\ spawner = [u \in Users |-> FALSE]
    /\ futures = <<>>
    /\ stop = [u \in Users |-> "none"]
    /\ stopCalls = [u \in Users |-> 0]
    /\ awaitIdx = 0
    /\ cleanup = "none"
    /\ afterFail = "none"
    /\ public_log = None

\* the default ports (hub_port 8081, port 8000, proxy_api_port = port + 1), or
\* a proxy API port set to the public port
Init == \E a \in {8001, 8000} : Constructed(8081, 8000, a)

\* any three ports
InitAnyPorts == \E h \in Ports, p \in Ports, a \in Ports : Constructed(h, p, a)

\* ------------------------------------------------------------- initialize
\* write_pid_file: writes the pid if a path is configured
WritePidFile ==
    /\ pc = "write_pid_file"
    /\ pid_exists' = pid_file
    /\ pc' = "init_ports"
    /\ UNCHANGED <<cfgVars, exit_status, dbVars, procs, proxy_process, co, restarts,
                   loopVars, userVars, cleanVars, afterFail, public_log>>

\* init_ports without its third comparison
PortConflictNoApiCheck(h, p, a) == h = p \/ h = a

\* the three comparisons of init_ports
PortConflict(h, p, a) == h = p \/ h = a \/ a = p

\* init_ports raises TraitError; catch_config_error logs it and exits with status 1
InitPorts ==
    /\ pc = "init_ports"
    /\ IF PortConflict(hub_port, port, proxy_api_port)
         THEN pc' = "exit" /\ exit_status' = {"1"}
         ELSE pc' = "init_hub" /\ UNCHANGED exit_status
    /\ UNCHANGED <<cfgVars, pid_exists, dbVars, procs, proxy_process, co, restarts,
                   loopVars, userVars, cleanVars, afterFail, public_log>>

\* init_db (admin users, no spawner) and init_hub
InitHub ==
    /\ pc = "init_hub"
    /\ hub' = {[port |-> hub_port]}
    /\ pc' = "init_proxy"
    /\ UNCHANGED <<cfgVars, pid_exists, exit_status, proxy, procs, proxy_process, co,
                   restarts, loopVars, userVars, cleanVars, afterFail, public_log>>

\* init_proxy: auth_token = orm.new_token(); the rest of initialize builds the
\* tornado application and changes nothing modelled here
InitProxy ==
    /\ pc = "init_proxy"
    /\ proxy' = {[public_port |-> port, api_port |-> proxy_api_port,
                  auth_token |-> NewToken]}
    /\ pc' = "start"
    /\ UNCHANGED <<cfgVars, pid_exists, exit_status, hub, procs, proxy_process, co,
                   restarts, loopVars, userVars, cleanVars, afterFail, public_log>>

\* ------------------------------------------------------------ start_proxy
TheProxy == CHOOSE x \in proxy : TRUE
TheHub == CHOOSE x \in hub : TRUE

\* an environment built from the proxy_auth_token trait of the application
TraitEnv == [CONFIGPROXY_AUTH_TOKEN |-> TraitToken]

\* env = os.environ.copy(); env['CONFIGPROXY_AUTH_TOKEN'] = self.proxy.auth_token
LaunchEnv == [CONFIGPROXY_AUTH_TOKEN |-> TheProxy.auth_token]

\* a command line whose public port moves with every launch
LaunchCmdFresh ==
    <<"configurable-http-proxy",
      "--port", ToString(TheProxy.public_port + Len(procs)),
      "--api-port", ToString(TheProxy.api_port),
      "--default-target", ToString(TheHub.port)>>

\* cmd = [proxy_cmd, --ip, --port, str(port), --api-ip, --api-port, str(port),
\* --default-target, hub.server.host]; the ip parts are fixed and left out
LaunchCmd ==
    <<"configurable-http-proxy",
      "--port", ToString(TheProxy.public_port),
      "--api-port", ToString(TheProxy.api_port),
      "--default-target", ToString(TheHub.port)>>

\* Popen(cmd, env=env); st is what the new process has done by the time it is
\* first polled: None (still running) or {code} (exited at once)
Popen(st) ==
    [returncode |-> st, env |-> LaunchEnv, cmd |-> LaunchCmd, terminated |-> FALSE,
     bound |-> {}, routes |-> {}]

\* self.proxy_process is rebound: the old Popen object is dropped and its
\* return code with it; what remains is whether the old process still runs
Dropped(p) == [p EXCEPT !.returncode = IF @ = None THEN None ELSE {"dropped"}]

\* a check written `if status:` would let exit code 0 pass
CheckRaisesIfTruthy(status) == status # None /\ status # {0}

\* _check: `if status is not None: raise RuntimeError(... exit code)`
CheckRaises(status) == status # None

\* a loop of one more iteration, range(11)
InLoopOneMore(i) == i <= Attempts

\* `for i in range(10)`: the loop body runs for attempt index i
InLoop(i) == i < Attempts

\* `yield server.wait_up(1)`: one more probe of the coroutine's current server
IssueProbe(r, where) ==
    [r EXCEPT !.pc = where, !.elapsed = 0, !.probes = @ + 1]

\* top of the loop body for attempt r.i of server r.server, or, when the range
\* is exhausted, the wait_up after the loop; status is self.proxy_process.poll().
\* r.seen keeps what the process had done when the wait_up after the loop was
\* issued; start_proxy does not look at it there
EnterAttempt(r, status) ==
    IF InLoop(r.i)
      THEN IF CheckRaises(status)
             THEN [r EXCEPT !.checks = @ + 1, !.pc = "failed", !.err = "launch",
                            !.code = status]
             ELSE IssueProbe([r EXCEPT !.checks = @ + 1], "wait")
      ELSE IssueProbe([r EXCEPT !.seen = status], "final")

\* `for server in (public_server, api_server)`: the loop starts afresh on the
\* next server; the per-server counters of the record start from zero
NextServer(r) ==
    [r EXCEPT !.server = @ + 1, !.i = 0, !.probes = 0, !.fails = 0, !.acc = 0,
              !.checks = 0, !.seen = None]

\* a loop whose `break` is not followed by the wait_up after the loop
AfterLoopProbeNoFinal(r, outcome, status) ==
    CASE outcome = "up" ->
           IF r.server < 2
             THEN EnterAttempt(NextServer([r EXCEPT !.up[r.server] = TRUE]), status)
             ELSE [r EXCEPT !.acc = r.i + 1, !.up[r.server] = TRUE, !.pc = "returned"]
      [] outcome = "timeout" ->
           EnterAttempt([r EXCEPT !.i = @ + 1, !.fails = @ + 1], status)
      [] OTHER -> [r EXCEPT !.pc = "failed", !.err = "conn"]

\* resumption from the wait_up inside the loop: `except TimeoutError: continue`,
\* `else: break`; any other exception leaves start_proxy
AfterLoopProbe(r, outcome, status) ==
    CASE outcome = "up" -> IssueProbe([r EXCEPT !.acc = r.i + 1], "final")
      [] outcome = "timeout" ->
           EnterAttempt([r EXCEPT !.i = @ + 1, !.fails = @ + 1], status)
      [] OTHER -> [r EXCEPT !.pc = "failed", !.err = "conn"]

\* a start_proxy that calls _check when the wait_up after the loop fails
AfterFinalProbeChecked(r, outcome, status) ==
    CASE outcome = "up" ->
           IF r.server < 2
             THEN EnterAttempt(NextServer([r EXCEPT !.up[r.server] = TRUE]), status)
             ELSE [r EXCEPT !.up[r.server] = TRUE, !.pc = "returned"]
      [] OTHER ->
           IF CheckRaises(status)
             THEN [r EXCEPT !.pc = "failed", !.err = "launch", !.code = status]
             ELSE [r EXCEPT !.pc = "failed", !.err = "timeout"]

\* resumption from the wait_up after the loop: the next server of
\* (public_server, api_server), or the end of start_proxy
AfterFinalProbe(r, outcome, status) ==
    CASE outcome = "up" ->
           IF r.server < 2
             THEN EnterAttempt(NextServer([r EXCEPT !.up[r.server] = TRUE]), status)
             ELSE [r EXCEPT !.up[r.server] = TRUE, !.pc = "returned"]
      [] outcome = "timeout" -> [r EXCEPT !.pc = "failed", !.err = "timeout"]
      [] OTHER -> [r EXCEPT !.pc = "failed", !.err = "conn"]

\* start_proxy up to its first yield: Popen, then attempt 0 on public_server
BeginStartProxy(r, status) ==
    EnterAttempt([r EXCEPT !.server = 1, !.i = 0, !.launches = @ + 1], status)

\* start(): IOLoop().run_sync(self.start_proxy)
StartProxy ==
    /\ pc = "start"
    /\ \E st \in {None} \cup {{c} : c \in ExitCodes} :
         /\ procs' = Append(procs, Popen(st))
         /\ proxy_process' = Len(procs) + 1
         /\ co' = [co EXCEPT ![Main] = BeginStartProxy(@, st)]
    /\ pc' = "start_proxy"
    /\ UNCHANGED <<cfgVars, pid_exists, exit_status, dbVars, restarts, loopVars,
                   userVars, cleanVars, afterFail, public_log>>

\* the process listening on the proxy's endpoints is the tracked process: a
\* connection to server s is accepted iff that process runs and has bound s
Accepts(p, s) == Poll(p) = None /\ s \in p.bound

\* wait_up(1) returns as soon as a connection is accepted and raises
\* TimeoutError when none was within one time unit
CanResolve(r, outcome) ==
    /\ outcome = "up" => Accepts(procs[proxy_process], r.server)
    /\ outcome = "timeout" => r.elapsed = 1 /\ ~Accepts(procs[proxy_process], r.server)

\* the loop on which coroutine c runs is the one being run
Runs(c) == IF c = Main THEN pc = "start_proxy" ELSE pc = "loop"

\* for user in db.query(User): if user.server -- the users that have a backend
UsersWithBackends == {u \in Users : spawner[u]}

\* a finished coroutine's frame is released: only its outcome is kept
Released(r) == [CoInit EXCEPT !.pc = IF r.err = "none" THEN "done_ok" ELSE "done_failed"]

\* a check_proxy that goes on to add_all_users however start_proxy ended
AfterStartProxyAlways(r) ==
    IF r.pc \in {"returned", "failed"}
      THEN [CoInit EXCEPT !.pc = "replay", !.launches = r.launches,
                          !.replays = r.replays + 1, !.replayed = UsersWithBackends]
      ELSE r

\* check_proxy after `yield self.start_proxy()`: an exception of start_proxy
\* ends check_proxy; if start_proxy returned, `yield self.proxy.add_all_users()`
\* requests one route per user with a backend
AfterStartProxy(r) ==
    CASE r.pc = "returned" ->
           [CoInit EXCEPT !.pc = "replay", !.launches = r.launches,
                          !.replays = r.replays + 1, !.replayed = UsersWithBackends]
      [] r.pc = "failed" -> Released(r)
      [] OTHER -> r

\* a wait_up future of coroutine c resolves and the coroutine runs to its next yield
ProbeDone(c) ==
    /\ Runs(c)
    /\ co[c].pc \in {"wait", "final"}
    /\ \E outcome \in Outcomes :
         /\ CanResolve(co[c], outcome)
         /\ LET st == PollProxy(procs, proxy_process)
                r == IF co[c].pc = "wait"
                       THEN AfterLoopProbe(co[c], outcome, st)
                       ELSE AfterFinalProbe(co[c], outcome, st)
            IN  /\ co' = [co EXCEPT ![c] = IF c = Main THEN r ELSE AfterStartProxy(r)]
                /\ afterFail' = IF c # Main /\ r.pc = "failed" THEN "pending" ELSE afterFail
                /\ public_log' = IF c = Main /\ co[c].server = 1 /\ r.server = 2
                                   THEN {[acc |-> co[c].acc, fails |-> co[c].fails,
                                          probes |-> co[c].probes]}
                                   ELSE public_log
    /\ UNCHANGED <<cfgVars, pid_exists, pc, exit_status, dbVars, procs, proxy_process,
                   restarts, loopVars, userVars, cleanVars>>

\* a wait_up future of coroutine c resolves with an exception that is not a
\* TimeoutError (a connection error other than a timeout, raised while the
\* endpoint does not accept); start_proxy has no handler for it
ProbeError(c) ==
    /\ Runs(c)
    /\ co[c].pc \in {"wait", "final"}
    /\ ~Accepts(procs[proxy_process], co[c].server)
    /\ LET st == PollProxy(procs, proxy_process)
           r == IF co[c].pc = "wait"
                  THEN AfterLoopProbe(co[c], "error", st)
                  ELSE AfterFinalProbe(co[c], "error", st)
       IN  /\ co' = [co EXCEPT ![c] = IF c = Main THEN r ELSE AfterStartProxy(r)]
           /\ afterFail' = IF c # Main /\ r.pc = "failed" THEN "pending" ELSE afterFail
    /\ UNCHANGED <<cfgVars, pid_exists, pc, exit_status, dbVars, procs, proxy_process,
                   restarts, loopVars, userVars, cleanVars, public_log>>

\* a process that has exited with code c: its listeners and its route table
\* are gone
Exited(p, c) == [p EXCEPT !.returncode = {c}, !.bound = {}, !.routes = {}]

\* the proxy process exits on its own
ProxyExit ==
    /\ proxy_process # 0
    /\ pc \in {"start_proxy", "listen", "loop"}
    /\ Poll(procs[proxy_process]) = None
    /\ \E c \in ExitCodes :
         procs' = [procs EXCEPT ![proxy_process] = Exited(@, c)]
    /\ UNCHANGED <<cfgVars, pid_exists, pc, exit_status, dbVars, proxy_process, co,
                   restarts, loopVars, spawner, cleanVars, afterFail, public_log>>

\* the running proxy process binds one of its two endpoints
Bind(s) ==
    /\ proxy_process # 0
    /\ pc \in {"start_proxy", "listen", "loop"}
    /\ Poll(procs[proxy_process]) = None
    /\ s \notin procs[proxy_process].bound
    /\ procs' = [procs EXCEPT ![proxy_process].bound = @ \cup {s}]
    /\ UNCHANGED <<cfgVars, pid_exists, pc, exit_status, dbVars, proxy_process, co,
                   restarts, loopVars, spawner, cleanVars, afterFail, public_log>>

\* one time unit passes on the running loop
Elapse ==
    /\ pc \in {"start_proxy", "loop"}
    /\ \A c \in Coroutines : (Runs(c) /\ co[c].pc \in {"wait", "final"}) => co[c].elapsed = 0
    /\ pc = "loop" => untilTick > 0
    /\ co' = [c \in Coroutines |->
                IF Runs(c) /\ co[c].pc \in {"wait", "final"}
                  THEN [co[c] EXCEPT !.elapsed = 1] ELSE co[c]]
    /\ untilTick' = IF pc = "loop" THEN untilTick - 1 ELSE untilTick
    /\ UNCHANGED <<cfgVars, pid_exists, pc, exit_status, dbVars, procs, proxy_process,
                   restarts, armed, listening, userVars, cleanVars, afterFail, public_log>>

\* a start() that runs cleanup when start_proxy failed
StartFailedCleanup ==
    /\ pc = "start_proxy"
    /\ co[Main].pc = "failed"
    /\ pc' = "cleanup_stop"
    /\ cleanup' = "running"
    /\ UNCHANGED <<cfgVars, pid_exists, exit_status, dbVars, procs, proxy_process, co,
                   restarts, loopVars, userVars, futures, stop, stopCalls, awaitIdx,
                   afterFail, public_log>>

\* start(): `except Exception: log.critical(...); return`
StartFailed ==
    /\ pc = "start_proxy"
    /\ co[Main].pc = "failed"
    /\ pc' = "exit"
    /\ exit_status' = {"0"}
    /\ UNCHANGED <<cfgVars, pid_exists, dbVars, procs, proxy_process, co, restarts,
                   loopVars, userVars, cleanVars, afterFail, public_log>>

\* a start() that goes on however run_sync(self.start_proxy) ended
StartProxyEnded(r) == r.pc \in {"returned", "failed"}

\* run_sync(self.start_proxy) returned without raising
StartProxyReturned(r) == r.pc = "returned"

\* start(): pc = PeriodicCallback(self.check_proxy, interval); pc.start()
Arm ==
    /\ pc = "start_proxy"
    /\ StartProxyReturned(co[Main])
    /\ armed' = TRUE
    /\ untilTick' = ProxyCheckInterval
    /\ pc' = "listen"
    /\ co' = [co EXCEPT ![Main] = Released(@)]
    /\ public_log' = None
    /\ UNCHANGED <<cfgVars, pid_exists, exit_status, dbVars, procs, proxy_process,
                   restarts, listening, userVars, cleanVars, afterFail>>

\* start(): http_server.listen(self.hub_port); loop.start()
Listen ==
    /\ pc = "listen"
    /\ listening' = TRUE
    /\ pc' = "loop"
    /\ UNCHANGED <<cfgVars, pid_exists, exit_status, dbVars, procs, proxy_process, co,
                   restarts, armed, untilTick, userVars, cleanVars, afterFail, public_log>>

\* ------------------------------------------------------------ check_proxy
\* a check_proxy that restarts at every tick
ProxyNeverRunning(status) == FALSE

\* a check_proxy with the test the other way round
ProxyRunningInverted(status) == status # None

\* `if self.proxy_process.poll() is None: return`
ProxyRunning(status) == status = None

\* the PeriodicCallback fires: check_proxy runs to its first yield
Tick ==
    /\ pc = "loop"
    /\ armed
    /\ untilTick = 0
    /\ untilTick' = ProxyCheckInterval
    /\ IF ProxyRunning(PollProxy(procs, proxy_process))
         THEN /\ afterFail' = IF afterFail = "pending" THEN "noop" ELSE "none"
              /\ UNCHANGED <<procs, proxy_process, co, restarts>>
         ELSE /\ restarts < MaxRestarts
              /\ restarts' = restarts + 1
              /\ \E st \in {None} \cup {{c} : c \in ExitCodes} :
                   /\ procs' = Append([procs EXCEPT ![proxy_process] = Dropped(@)],
                                      Popen(st))
                   /\ proxy_process' = Len(procs) + 1
                   /\ LET r == BeginStartProxy(co[restarts + 1], st)
                      IN  /\ co' = [co EXCEPT ![restarts + 1] = AfterStartProxy(r)]
                          /\ afterFail' = IF r.pc = "failed" THEN "pending"
                                          ELSE IF afterFail = "pending" THEN "restart"
                                          ELSE "none"
    /\ UNCHANGED <<cfgVars, pid_exists, pc, exit_status, dbVars, armed, listening,
                   spawner, cleanVars, public_log>>

\* the route requests of add_all_users complete: against a running proxy the
\* routes are in its table, otherwise the request fails
ReplayDone(c) ==
    /\ pc = "loop"
    /\ co[c].pc = "replay"
    /\ IF Accepts(procs[proxy_process], 2)
         THEN /\ procs' = [procs EXCEPT ![proxy_process].routes = @ \cup co[c].replayed]
              /\ co' = [co EXCEPT ![c] = Released(@)]
         ELSE /\ co' = [co EXCEPT ![c] = Released([@ EXCEPT !.err = "replay"])]
              /\ UNCHANGED procs
    /\ UNCHANGED <<cfgVars, pid_exists, pc, exit_status, dbVars, proxy_process,
                   restarts, loopVars, spawner, cleanVars, afterFail, public_log>>

\* a request handler spawns a backend for user u and adds its route
Spawn(u) ==
    /\ pc = "loop"
    /\ ~spawner[u]
    /\ spawner' = [spawner EXCEPT ![u] = TRUE]
    /\ procs' = IF Accepts(procs[proxy_process], 2)
                  THEN [procs EXCEPT ![proxy_process].routes = @ \cup {u}]
                  ELSE procs
    /\ UNCHANGED <<cfgVars, pid_exists, pc, exit_status, dbVars, proxy_process,
                   co, restarts, loopVars, cleanVars, afterFail, public_log>>

\* ---------------------------------------------------------------- cleanup
\* the users of db.query(orm.User) with a spawner, in query order
RECURSIVE QueryOrder(_)
QueryOrder(S) ==
    IF S = {} THEN <<>>
    ELSE LET u == CHOOSE x \in S : \A y \in S : x <= y
         IN  <<u>> \o QueryOrder(S \ {u})

\* start(): loop.start() ends with KeyboardInterrupt; `finally` runs cleanup in
\* a new IOLoop.  The interrupted loop never runs again, so the coroutines and
\* the periodic callback left on it are dropped with it.
Interrupt ==
    /\ pc = "loop"
    /\ pc' = "cleanup_stop"
    /\ cleanup' = "running"
    /\ co' = [c \in Coroutines |-> IF c = Main THEN co[c] ELSE CoInit]
    /\ untilTick' = ProxyCheckInterval
    /\ restarts' = 0
    /\ afterFail' = "none"
    /\ UNCHANGED <<cfgVars, pid_exists, exit_status, dbVars, procs, proxy_process,
                   armed, listening, userVars, futures, stop, stopCalls, awaitIdx,
                   public_log>>

\* cleanup: futures.append(user.spawner.stop()) for every user with a spawner
CleanupStop ==
    /\ pc = "cleanup_stop"
    /\ futures' = QueryOrder(UsersWithBackends)
    /\ stop' = [u \in Users |-> IF spawner[u] THEN "pending" ELSE stop[u]]
    /\ stopCalls' = [u \in Users |-> IF spawner[u] THEN stopCalls[u] + 1 ELSE stopCalls[u]]
    /\ pc' = "cleanup_terminate"
    /\ UNCHANGED <<cfgVars, pid_exists, exit_status, dbVars, procs, proxy_process, co,
                   restarts, loopVars, userVars, awaitIdx, cleanup, afterFail, public_log>>

\* a cleanup that sends the proxy no signal
NotTerminated(p) == p

\* Popen.terminate(): SIGTERM to a process that still runs
Terminate(p) ==
    IF Poll(p) = None
      THEN [Exited(p, 0 - SigTerm) EXCEPT !.terminated = TRUE]
      ELSE [p EXCEPT !.terminated = TRUE]

\* cleanup: self.proxy_process.terminate()
CleanupTerminate ==
    /\ pc = "cleanup_terminate"
    /\ procs' = [procs EXCEPT ![proxy_process] = Terminate(@)]
    /\ awaitIdx' = 1
    /\ pc' = "cleanup_wait"
    /\ UNCHANGED <<cfgVars, pid_exists, exit_status, dbVars, proxy_process, co, restarts,
                   loopVars, spawner, futures, stop, stopCalls, cleanup, afterFail, public_log>>

\* the future returned by spawner.stop() resolves, with a result or an exception
StopResolve(u) ==
    /\ stop[u] = "pending"
    /\ pc \in {"cleanup_terminate", "cleanup_wait"}
    /\ \E res \in {"ok", "failed"} : stop' = [stop EXCEPT ![u] = res]
    /\ UNCHANGED <<cfgVars, pid_exists, pc, exit_status, dbVars, procs, proxy_process, co,
                   restarts, loopVars, userVars, futures, stopCalls, awaitIdx, cleanup,
                   afterFail, public_log>>

\* `yield f` on a future that holds an exception raises it in cleanup
YieldRaises(state) == state = "failed"

\* cleanup: `for f in futures: yield f`
CleanupWait ==
    /\ pc = "cleanup_wait"
    /\ awaitIdx <= Len(futures)
    /\ stop[futures[awaitIdx]] # "pending"
    /\ IF YieldRaises(stop[futures[awaitIdx]])
         THEN /\ pc' = "exit"
              /\ cleanup' = "raised"
              /\ exit_status' = {"exception"}
              /\ UNCHANGED awaitIdx
         ELSE /\ awaitIdx' = awaitIdx + 1
              /\ UNCHANGED <<pc, cleanup, exit_status>>
    /\ UNCHANGED <<cfgVars, pid_exists, dbVars, procs, proxy_process, co, restarts,
                   loopVars, userVars, futures, stop, stopCalls, afterFail, public_log>>

\* cleanup: remove the pid file if configured and present; start() returns
CleanupPidFile ==
    /\ pc = "cleanup_wait"
    /\ awaitIdx > Len(futures)
    /\ pid_exists' = IF pid_file /\ pid_exists THEN FALSE ELSE pid_exists
    /\ pc' = "exit"
    /\ cleanup' = "done"
    /\ exit_status' = {"0"}
    /\ UNCHANGED <<cfgVars, dbVars, procs, proxy_process, co, restarts, loopVars,
                   userVars, futures, stop, stopCalls, awaitIdx, afterFail, public_log>>

\* a second KeyboardInterrupt, raised inside IOLoop().run_sync(self.cleanup)
SecondInterrupt ==
    /\ pc \in {"cleanup_stop", "cleanup_terminate", "cleanup_wait"}
    /\ pc' = "exit"
    /\ cleanup' = "interrupted"
    /\ exit_status' = {"exception"}
    /\ UNCHANGED <<cfgVars, pid_exists, dbVars, procs, proxy_process, co, restarts,
                   loopVars, userVars, futures, stop, stopCalls, awaitIdx, afterFail, public_log>>

\* ------------------------------------------------------------------ claims
Tracked == procs[proxy_process]

\* C1 -- the hub listener is opened and the watchdog armed only after the
\* start_proxy of start() has returned without raising; start_proxy returns
\* only after the final probe of the public server and then that of the API
\* server have been accepted; after a failed start_proxy neither happens.
C1_StartupOrdering ==
    /\ (listening \/ armed) => co[Main].pc = "done_ok"
    /\ co[Main].pc \in {"failed", "done_failed"} => ~listening /\ ~armed
    /\ \A c \in Coroutines :
         /\ (co[c].server = 2 \/ co[c].up[2]) => co[c].up[1]
         /\ co[c].pc = "returned" => co[c].up = <<TRUE, TRUE>>

C1_Witness == pc = "loop" /\ listening /\ armed /\ co[Main].pc = "done_ok"

\* C2 -- once init_ports has run: if two of the three ports are equal,
\* initialize has ended with a configuration error, with no Hub or Proxy in
\* the store, no process launched and no listener opened; if the three ports are
\* pairwise distinct, init_ports has not failed.  Nothing is created before
\* init_ports.
TwoPortsEqual == Cardinality({hub_port, port, proxy_api_port}) < 3
NothingCreated ==
    hub = None /\ proxy = None /\ procs = <<>> /\ proxy_process = 0 /\ ~listening /\ ~armed

C2_PortConflictFailsFirst ==
    IF pc \in {"write_pid_file", "init_ports"}
      THEN NothingCreated /\ exit_status = None
      ELSE IF TwoPortsEqual
             THEN pc = "exit" /\ exit_status = {"1"} /\ NothingCreated
             ELSE pc # "exit" /\ exit_status = None

C2_Witness == pc = "exit" /\ exit_status = {"1"} /\ proxy_api_port = port /\ hub_port # port

\* C3 -- when cleanup has ended and the stop request of some user failed,
\* cleanup has run to its end: the proxy was sent terminate, the pid file is
\* gone, every stop future was awaited, and nothing was raised to the caller.
C3_ShutdownToleratesStopFailure ==
    (pc = "exit" /\ cleanup \in {"done", "raised"} /\ \E u \in Users : stop[u] = "failed") =>
        /\ cleanup = "done"
        /\ Tracked.terminated
        /\ ~pid_exists
        /\ awaitIdx > Len(futures)
        /\ exit_status = {"0"}

\* C4 -- a process is launched only by start() or by a tick that starts a
\* restart, one process at a time; a check_proxy in flight has launched exactly
\* one process; its route replay starts only in the step in which the final
\* probe of the API server is accepted (start_proxy returns), happens once and
\* covers exactly the users that have a backend at that moment; a check_proxy
\* whose start_proxy fails ends without a replay.
C4_WatchdogRecovery ==
    [][/\ Len(procs') # Len(procs) =>
            /\ Len(procs') = Len(procs) + 1
            /\ pc = "start" \/ restarts' = restarts + 1
       /\ \A c \in Ticks :
            /\ (co[c].pc = "idle" /\ co'[c].pc # "idle") =>
                   /\ restarts' = restarts + 1
                   /\ Len(procs') = Len(procs) + 1
                   /\ Poll(Tracked) # None
            /\ co'[c].pc \in {"wait", "final", "replay"} =>
                   co'[c].launches = 1
            /\ (co'[c].pc = "replay" /\ co[c].pc # "replay") =>
                   /\ co[c].pc = "final" /\ co[c].server = 2 /\ co[c].up[1]
                   /\ Accepts(Tracked, 2)
                   /\ co[c].replays = 0 /\ co'[c].replays = 1
                   /\ co'[c].replayed = {u \in Users : spawner[u]}
            /\ (co'[c].pc = "done_failed" /\ co[c].pc \in {"idle", "wait", "final"}) =>
                   co[c].replays = 0
            /\ co[c].pc = "replay" =>
                   /\ co[c].replays = 1
                   /\ co'[c].pc \in {"replay", "done_ok", "done_failed", "idle"}]_vars

C4_Witness ==
    \E c \in Ticks :
        /\ co[c].pc = "replay"
        /\ co[c].replayed = Users
        /\ Poll(Tracked) = None

\* C5 -- the periodic callback never begins check_proxy while the start_proxy
\* of an earlier check_proxy is still suspended at a probe.
C5_TicksSerialized ==
    [][(untilTick = 0 /\ untilTick' = ProxyCheckInterval) =>
           \A c \in Ticks : co[c].pc \notin {"wait", "final"}]_vars

\* C6 -- after a tick whose start_proxy failed, the orchestrator still serves
\* with its listener open and the callback armed, and the next tick attempts a
\* restart.
C6_FailedRestartIsRetried ==
    /\ afterFail # "none" => pc = "loop" /\ listening /\ armed
    /\ afterFail # "noop"

\* C7 -- if from some point on the orchestrator serves with a tracked proxy
\* process that runs and accepts connections on both endpoints, then whenever
\* the proxy process is found exited while serving, eventually a running proxy
\* process holds the routes of all users with backends.
Reachable == pc = "loop" /\ Accepts(Tracked, 1) /\ Accepts(Tracked, 2)
ExitedWhileServing == pc = "loop" /\ Poll(Tracked) # None
Resynced == pc = "loop" /\ Poll(Tracked) = None /\ UsersWithBackends \subseteq Tracked.routes

C7_ProxyRecovered ==
    (<>[]Reachable) => [](ExitedWhileServing => <>Resynced)

\* C8 -- no in-loop probe is issued in a step that finds the tracked process
\* exited: a coroutine that begins an in-loop attempt then ends in failure; the
\* launch error of start() carries the return code of the process, and after it
\* start_proxy issues no probe.  A process that exits on launch fails
\* start_proxy before any probe.
IssuesLoopProbe(c) ==
    /\ co'[c].pc = "wait"
    /\ co[c].pc # "wait" \/ co'[c].i # co[c].i \/ co'[c].server # co[c].server

C8_ExitDuringProbingIsFatal ==
    [][/\ \A c \in Coroutines :
            /\ IssuesLoopProbe(c) => Poll(procs'[proxy_process']) = None
            /\ (/\ co[c].pc = "wait" /\ co'[c].pc # "wait"
                /\ pc' = pc
                /\ co[c].i + 1 < Attempts
                /\ Poll(Tracked) # None) =>
                   co'[c].pc \in {"failed", "done_failed"}
       /\ (co'[Main].pc = "failed" /\ co[Main].pc # "failed" /\ Poll(procs'[proxy_process']) # None
           /\ co[Main].pc \in {"idle", "wait"}) =>
              /\ co'[Main].err = "launch"
              /\ co'[Main].code = Poll(procs'[proxy_process'])
              /\ co'[Main].probes = co[Main].probes
       /\ co[Main].pc = "failed" => co'[Main] = co[Main]]_vars

C8_Witness ==
    /\ co[Main].pc = "failed" /\ co[Main].err = "launch" /\ co[Main].code = {17}
    /\ co[Main].server = 1 /\ co[Main].probes = 0

\* C9 -- a server first accepted at in-loop attempt k (1..10) has, once the
\* loop is left, received k - 1 failed probes, the accepted one and the final
\* one: k + 1 probes; while the loop runs, attempt i + 1 is the (i + 1)-th probe.
C9_ProbeCount ==
    \A c \in Coroutines :
        /\ co[c].pc = "wait" =>
               /\ co[c].i < Attempts /\ co[c].acc = 0
               /\ co[c].probes = co[c].i + 1 /\ co[c].fails = co[c].i
        /\ (co[c].pc \in {"final", "returned"} /\ co[c].acc # 0) =>
               /\ co[c].acc \in 1..Attempts
               /\ co[c].fails = co[c].acc - 1
               /\ co[c].probes = co[c].acc + 1
        /\ (c = Main /\ co[c].pc = "returned") =>
               \E log \in public_log :
                   log.acc # 0 =>
                       /\ log.acc \in 1..Attempts
                       /\ log.fails = log.acc - 1
                       /\ log.probes = log.acc + 1

C9_Witness ==
    /\ co[Main].pc = "returned" /\ Poll(Tracked) = None
    /\ public_log = {[acc |-> Attempts, fails |-> Attempts - 1, probes |-> Attempts + 1]}
    /\ co[Main].acc = 1 /\ co[Main].probes = 2

\* C10 -- no server is probed more than 11 times; a final probe of a server
\* never accepted in the loop follows exactly 10 failed in-loop probes; when
\* start_proxy of start() fails by timeout on a server never accepted, that
\* server has received 10 in-loop probes and the final one; the API server is
\* probed only after the public server accepted its final probe.
C10_ProbingTerminates ==
    \A c \in Coroutines :
        /\ co[c].probes <= Attempts + 1
        /\ co[c].i <= Attempts
        /\ (co[c].pc = "final" /\ co[c].acc = 0) =>
               co[c].fails = Attempts /\ co[c].probes = Attempts + 1
        /\ (co[c].pc = "failed" /\ co[c].err = "timeout" /\ co[c].acc = 0) =>
               /\ co[c].fails = Attempts /\ co[c].checks = Attempts
               /\ co[c].probes = Attempts + 1
        /\ (co[c].pc = "failed" /\ co[c].err = "timeout") => ~co[c].up[co[c].server]
        /\ co[c].server = 2 => co[c].up[1]

C10_Witness ==
    /\ co[Main].pc = "failed" /\ co[Main].err = "timeout" /\ Poll(Tracked) = None
    /\ co[Main].server = 1 /\ co[Main].acc = 0 /\ co[Main].probes = Attempts + 1


\* C11 -- an in-loop probe of start() that does not succeed never ends
\* start_proxy while the proxy process runs: whether it timed out or failed
\* with another connection error, it uses up one attempt and the loop goes on
\* to the next attempt (or, after the tenth, to the wait_up after the loop).
C11_ConnErrorIsRetried ==
    [][(/\ co[Main].pc = "wait"
        /\ co'[Main].pc # "wait" \/ co'[Main].i # co[Main].i
        /\ ~Accepts(Tracked, 1) \/ co[Main].server = 2
        /\ ~Accepts(Tracked, 2) \/ co[Main].server = 1
        /\ Poll(Tracked) = None) =>
           /\ co'[Main].pc \in {"wait", "final"}
           /\ co'[Main].i = co[Main].i + 1
           /\ co'[Main].fails = co[Main].fails + 1]_vars

\* C12 -- when cleanup has been entered and has ended without a failed stop
\* request, it has run to its end whatever signals arrived meanwhile: every
\* stop future was awaited and the pid file is gone.
C12_CleanupNotCancellable ==
    (pc = "exit" /\ cleanup # "none" /\ \A u \in Users : stop[u] # "failed") =>
        /\ cleanup = "done"
        /\ awaitIdx > Len(futures)
        /\ ~pid_exists

\* C13 -- cleanup calls spawner.stop() once for every user with a spawner and
\* for no other user, and keeps one future per call; it waits for no future
\* before all the calls are made and the proxy process has been sent terminate.
C13_ShutdownFanOut ==
    /\ \A u \in Users : stopCalls[u] <= 1
    /\ pc \in {"cleanup_stop", "cleanup_terminate"} => awaitIdx = 0
    /\ cleanup = "none" => \A u \in Users : stopCalls[u] = 0 /\ stop[u] = "none"
    /\ (pc \in {"cleanup_terminate", "cleanup_wait"} \/ awaitIdx >= 1) =>
           /\ \A u \in Users : stopCalls[u] = IF spawner[u] THEN 1 ELSE 0
           /\ {futures[k] : k \in 1..Len(futures)} = UsersWithBackends
           /\ Len(futures) = Cardinality(UsersWithBackends)
    /\ (pc = "cleanup_wait" \/ awaitIdx >= 1) => Tracked.terminated

C13_Witness ==
    /\ pc = "cleanup_wait" /\ awaitIdx = 1 /\ Tracked.terminated
    /\ \E u \in Users, v \in Users :
         /\ spawner[u] /\ stopCalls[u] = 1 /\ stop[u] = "pending"
         /\ ~spawner[v] /\ stopCalls[v] = 0

\* C14 -- when the process ends because start-up failed (init_ports raised, or
\* start_proxy raised inside start()), its exit status is not zero.
C14_StartupFailureExitsNonZero ==
    (pc = "exit" /\ cleanup = "none") =>
        exit_status # None /\ exit_status # {"0"}

\* C15 -- every proxy process was launched with the Proxy and the Hub in the
\* store, with the token of the stored Proxy in CONFIGPROXY_AUTH_TOKEN of its
\* environment, and with no argument of its command line equal to that token.
C15_TokenInEnvironmentOnly ==
    /\ procs # <<>> => proxy # None /\ hub # None
    /\ \A k \in 1..Len(procs) :
         /\ procs[k].env.CONFIGPROXY_AUTH_TOKEN = TheProxy.auth_token
         /\ \A j \in 1..Len(procs[k].cmd) : procs[k].cmd[j] # TheProxy.auth_token

C15_Witness ==
    /\ Len(procs) = 3
    /\ \A k \in 1..Len(procs) : procs[k].env.CONFIGPROXY_AUTH_TOKEN = NewToken
    /\ proxy = {[public_port |-> 8000, api_port |-> 8001, auth_token |-> NewToken]}

\* a step in which the periodic callback runs check_proxy
TickStep ==
    /\ pc = "loop" /\ untilTick = 0
    /\ untilTick' = ProxyCheckInterval /\ cleanup' = cleanup

\* C16 -- a tick that finds the tracked proxy process running launches
\* nothing, starts no probe and no replay, and leaves the process table, the
\* handle, the Hub, the Proxy, the users' backends and the serving state as they
\* were.
C16_TickOnRunningProxyIsNoop ==
    [][(TickStep /\ Poll(Tracked) = None) =>
           UNCHANGED <<procs, proxy_process, co, restarts, hub, proxy, spawner,
                       pc, listening, armed, pid_exists>>]_vars

C16_Witness ==
    /\ afterFail = "noop" /\ untilTick = ProxyCheckInterval
    /\ pc = "loop" /\ Poll(Tracked) = None

\* C17 -- while serving, no step of the watchdog changes the Hub, the Proxy or
\* the configured ports; a tick leaves the orchestrator serving with its
\* listener open and the callback armed; every process, the first and every
\* relaunch, has the same environment and the same command line, built from the
\* stored Proxy and Hub.
C17_RestartKeepsState ==
    [][/\ pc = "loop" => UNCHANGED <<hub, proxy, cfgVars>>
       /\ TickStep => pc' = "loop" /\ listening' /\ armed' /\ UNCHANGED spawner
       /\ \A k \in 1..Len(procs') :
            /\ procs'[k].env = procs'[1].env
            /\ procs'[k].cmd = procs'[1].cmd
            /\ procs'[k].cmd[3] = ToString(port)
            /\ procs'[k].cmd[5] = ToString(proxy_api_port)
            /\ procs'[k].cmd[7] = ToString(hub_port)]_vars

C17_Witness ==
    /\ pc = "loop" /\ listening /\ armed
    /\ Len(procs) >= 2 /\ restarts >= 1
    /\ Accepts(Tracked, 1) /\ Accepts(Tracked, 2)
    /\ Tracked.cmd = procs[1].cmd /\ Tracked.env = procs[1].env

\* C19 -- only the tracked process can be running: every process launched
\* before it has exited; a process is launched only by start() or in the very
\* step in which a tick finds the tracked process exited.
C19_OneLiveProxy ==
    [][/\ Len(procs') # Len(procs) =>
            /\ pc = "start" \/ (TickStep /\ Poll(Tracked) # None)
            /\ proxy_process' = Len(procs')
       /\ \A k \in 1..Len(procs') :
            k # proxy_process' => Poll(procs'[k]) # None
       /\ Cardinality({k \in 1..Len(procs') : Poll(procs'[k]) = None}) <= 1]_vars

C19_Witness ==
    /\ Len(procs) = 3 /\ Poll(procs[3]) = None
    /\ Poll(procs[1]) # None /\ Poll(procs[2]) # None
    /\ \A c \in 1..2 : co[c].pc \in {"wait", "final"}

\* C18 -- the wait_up after the loop is issued without a liveness check: the
\* step from the loop to that probe makes no _check and is taken whatever the
\* proxy process has done, and when that probe of start() fails, start_proxy
\* fails with the timeout error and carries no exit code.
C18_FinalProbeUnchecked ==
    [][/\ \A c \in Coroutines :
            /\ (co[c].pc = "wait" /\ co'[c].pc = "final") =>
                   /\ co'[c].checks = co[c].checks
                   /\ co'[c].probes = co[c].probes + 1
                   /\ co'[c].seen = Poll(Tracked)
            /\ (/\ co[c].pc = "wait" /\ co[c].i = Attempts - 1
                /\ co'[c].pc # "wait" /\ pc' = pc) =>
                   co'[c].pc = "final"
       /\ (co[Main].pc = "final" /\ co'[Main].pc = "failed") =>
              co'[Main].err = "timeout" /\ co'[Main].code = None]_vars

C18_Witness ==
    /\ co[Main].pc = "failed" /\ co[Main].err = "timeout" /\ co[Main].code = None
    /\ co[Main].seen = {17}
    /\ co[Main].checks = Attempts /\ co[Main].probes = Attempts + 1

\* C20 -- cleanup is entered only from serving; as long as it has not been
\* entered, the pid file written by write_pid_file is still there and no proxy
\* process has been sent terminate, in particular after init_ports failed and
\* after start_proxy failed in start().
C20_NoCleanupOnStartupFailure ==
    /\ cleanup # "none" => listening /\ armed /\ co[Main].pc = "done_ok"
    /\ cleanup = "none" =>
           /\ pc # "write_pid_file" => pid_exists = pid_file
           /\ \A k \in 1..Len(procs) :
                ~procs[k].terminated
    /\ pc = "exit" /\ cleanup = "none" => exit_status # None /\ ~listening

C20_Witness ==
    /\ pc = "exit" /\ cleanup = "none"
    /\ pid_file /\ pid_exists
    /\ co[Main].pc = "failed" /\ co[Main].err = "timeout"
    /\ Poll(Tracked) = None /\ ~Tracked.terminated

\* ------------------------------------------------------------ specification
Next ==
    \/ WritePidFile
    \/ InitPorts
    \/ InitHub
    \/ InitProxy
    \/ StartProxy
    \/ \E c \in Coroutines : ProbeDone(c)
    \/ ProxyExit
    \/ \E s \in 1..2 : Bind(s)
    \/ Elapse
    \/ StartFailed
    \/ Arm
    \/ Listen
    \/ Tick
    \/ \E c \in Ticks : ReplayDone(c)
    \/ \E u \in Users : Spawn(u)
    \/ Interrupt
    \/ CleanupStop
    \/ CleanupTerminate
    \/ \E u \in Users : StopResolve(u)
    \/ CleanupWait
    \/ CleanupPidFile
    \/ SecondInterrupt

Spec == Init /\ [][Next]_vars

\* the IOLoop keeps running its callbacks: time passes, the periodic callback
\* fires, and pending wait_up futures and route requests resolve
SpecLive ==
    /\ Spec
    /\ WF_vars(Elapse)
    /\ WF_vars(Tick)
    /\ WF_vars(\E c \in Coroutines : ProbeDone(c))
    /\ WF_vars(\E c \in Ticks : ReplayDone(c))

\* initialize and the first launch, for every configuration of the ports
\* start-up with probes that can also fail with a connection error
NextConn ==
    \/ WritePidFile
    \/ InitPorts
    \/ InitHub
    \/ InitProxy
    \/ StartProxy
    \/ \E c \in Coroutines : ProbeDone(c)
    \/ \E c \in Coroutines : ProbeError(c)
    \/ ProxyExit
    \/ \E s \in 1..2 : Bind(s)
    \/ Elapse
    \/ StartFailed
    \/ Arm
    \/ Listen

SpecConn == Init /\ [][NextConn]_vars

NextStartup ==
    \/ WritePidFile
    \/ InitPorts
    \/ InitHub
    \/ InitProxy
    \/ StartProxy

SpecPorts == InitAnyPorts /\ [][NextStartup]_vars
====
